---------------------------- MODULE Spec2Model ----------------------------
(***************************************************************************)
(* Model of jules-scratch/verification/verify_delete_button.py: a script   *)
(* that launches a headless browser, adds a hotspot in the application     *)
(* under test, selects it, deletes it, asserts that no hotspot marker is   *)
(* left and takes a screenshot; the browser is closed in a finally block.  *)
(*                                                                         *)
(* The script is one thread of control; pc is the statement it is about to *)
(* execute.  Every library call either returns or raises.  The page under  *)
(* test and the file system are the environment: the page is a counter of  *)
(* hotspot markers with an "Add Hotspot" and a "Delete hotspot" control    *)
(* that work or do not, the file system is a map from paths to contents.   *)
(***************************************************************************)
EXTENDS Naturals, Sequences, FiniteSets

\* The script is run at most MaxRuns times in succession.
MaxRuns == 2
\* The page shows at most MaxInitMarkers markers before the first run.
MaxInitMarkers == 2

VARIABLES
    pc,            \* the statement the script is about to execute
    runs,          \* number of times the script has been started
    playwright,    \* the driver of `with sync_playwright()`: none/running/stopped
    browser,       \* the browser of line 4: none / open / closed / killed
    pending,       \* the call whose exception is propagating, or "none"
    outcome,       \* how the current run ended: none / success / failure
    log,           \* the library calls this run has issued, in order
    fault,         \* the call that fails for a reason outside the page, this run
    allClean,      \* no run so far had a fault
    markers,       \* number of .hotspot-element elements in the page
    selected,      \* a marker is selected in the page
    initMarkers,   \* markers before the first run
    startMarkers,  \* markers when the current run started
    app,           \* how the page's controls behave
    files          \* the file system: path -> content

vars == <<pc, runs, playwright, browser, pending, outcome, log, fault, allClean,
          markers, selected, initMarkers, startMarkers, app, files>>

----------------------------------------------------------------------------
(* The program text. *)

\* The statements of run() before the try block (lines 4-6).
Setup == <<"launch", "new_context", "new_page">>

\* The statements of the try block (lines 9-23), in source order.
Scenario == <<"goto", "click_add", "click_marker", "click_delete",
              "expect_count", "screenshot">>

Calls == {Setup[i] : i \in 1..Len(Setup)} \cup {Scenario[i] : i \in 1..Len(Scenario)}

ScenarioSteps == {Scenario[i] : i \in 1..Len(Scenario)}

Faults == Calls \cup {"none"}

IndexIn(seq, x) == CHOOSE i \in 1..Len(seq) : seq[i] = x

\* A bug that drops the selection click: 'Add Hotspot' is followed by the
\* delete click.
SuccessorSkipSelect(call) ==
    IF call = "click_add" THEN "click_delete"
    ELSE IF call \in {Setup[i] : i \in 1..Len(Setup)}
    THEN (IF call = "new_page" THEN "goto" ELSE Setup[IndexIn(Setup, call) + 1])
    ELSE IF call = "screenshot" THEN "finally"
    ELSE Scenario[IndexIn(Scenario, call) + 1]

\* A bug that issues the delete click before the selection click.
SuccessorSwapped(call) ==
    CASE call = "launch"       -> "new_context"
      [] call = "new_context"  -> "new_page"
      [] call = "new_page"     -> "goto"
      [] call = "goto"         -> "click_add"
      [] call = "click_add"    -> "click_delete"
      [] call = "click_delete" -> "click_marker"
      [] call = "click_marker" -> "expect_count"
      [] call = "expect_count" -> "screenshot"
      [] call = "screenshot"   -> "finally"

\* The statement reached when `call` returns: the next statement of run(),
\* and the finally block after the last statement of the try block.
Successor(call) ==
    IF call \in {Setup[i] : i \in 1..Len(Setup)}
    THEN (IF call = "new_page" THEN "goto" ELSE Setup[IndexIn(Setup, call) + 1])
    ELSE IF call = "screenshot" THEN "finally"
    ELSE Scenario[IndexIn(Scenario, call) + 1]

\* A bug that catches a step's exception and carries on with the next step.
HandlerContinue(call) == Successor(call)

\* The statement reached when `call` raises: the finally block for a call
\* inside the try block (lines 8-25); for lines 4-6, which are outside it,
\* the exception leaves run() at once.
Handler(call) == IF call \in ScenarioSteps THEN "finally" ELSE "exit"

\* A bug that expects one marker to be left.
ExpectedCountOne == 0 + 1

\* to_have_count(0), line 21.
ExpectedCount == 0

ScreenshotPath == "jules-scratch/verification/verification.png"

OtherPath == "any other path"

Paths == {ScreenshotPath, OtherPath}

\* A bug that asks for a full-page capture.
ScreenshotArgsFullPage == [path |-> ScreenshotPath, full_page |-> TRUE]

\* A bug that names the file after the run.
ScreenshotArgsPerRun ==
    [path |-> IF runs = 1 THEN ScreenshotPath ELSE OtherPath, full_page |-> FALSE]

\* page.screenshot(path=...), line 23: only path is passed, so full_page
\* keeps the library's default, false (a capture of the viewport).
ScreenshotArgs == [path |-> ScreenshotPath, full_page |-> FALSE]

----------------------------------------------------------------------------
(* The environment. *)

Absent == [kind |-> "absent", run |-> 0, full_page |-> FALSE]
Prior == [kind |-> "prior", run |-> 0, full_page |-> FALSE]
Capture(r, fp) == [kind |-> "capture", run |-> r, full_page |-> fp]

\* The page's controls: whether 'Add Hotspot' is there, whether it adds a
\* marker, whether 'Delete hotspot' removes the selected marker.
Apps == [hasAdd : BOOLEAN, addWorks : BOOLEAN, deleteWorks : BOOLEAN]

\* 'Add Hotspot' adds exactly one marker, deleting a selected marker removes
\* exactly that marker.
WellBehaved == app.hasAdd /\ app.addWorks /\ app.deleteWorks

Entry(call, ok) == [call |-> call, ok |-> ok, browser |-> browser]

\* `call` returns.
Return(call) ==
    /\ log' = Append(log, Entry(call, TRUE))
    /\ pc' = Successor(call)
    /\ pending' = pending

\* `call` raises.
Raise(call) ==
    /\ log' = Append(log, Entry(call, FALSE))
    /\ pc' = Handler(call)
    /\ pending' = call

----------------------------------------------------------------------------

Init ==
    /\ pc = "idle"
    /\ runs = 0
    /\ playwright = "none"
    /\ browser = "none"
    /\ pending = "none"
    /\ outcome = "none"
    /\ log = <<>>
    /\ fault = "none"
    /\ allClean = TRUE
    /\ markers \in 0..MaxInitMarkers
    /\ selected = FALSE
    /\ initMarkers = markers
    /\ startMarkers = markers
    /\ app \in Apps
    /\ files \in [Paths -> {Absent, Prior}]

\* The script is started (line 27, `with sync_playwright() as playwright`).
StartRun ==
    /\ pc \in {"idle", "done"}
    /\ runs < MaxRuns
    /\ \E f \in Faults :
         /\ fault' = f
         /\ allClean' = (allClean /\ f = "none")
    /\ runs' = runs + 1
    /\ playwright' = "running"
    /\ browser' = "none"
    /\ pending' = "none"
    /\ outcome' = "none"
    /\ log' = <<>>
    /\ startMarkers' = markers
    /\ pc' = "launch"
    /\ UNCHANGED <<markers, selected, initMarkers, app, files>>

\* Line 4: browser = playwright.chromium.launch(headless=True)
Launch ==
    /\ pc = "launch"
    /\ IF fault = "launch"
       THEN Raise("launch") /\ browser' = browser
       ELSE Return("launch") /\ browser' = "open"
    /\ UNCHANGED <<runs, playwright, outcome, fault, allClean, markers, selected,
                   initMarkers, startMarkers, app, files>>

\* Line 5: context = browser.new_context()
NewContext ==
    /\ pc = "new_context"
    /\ IF fault = "new_context" THEN Raise("new_context") ELSE Return("new_context")
    /\ UNCHANGED <<runs, playwright, browser, outcome, fault, allClean, markers,
                   selected, initMarkers, startMarkers, app, files>>

\* Line 6: page = context.new_page()
NewPage ==
    /\ pc = "new_page"
    /\ IF fault = "new_page" THEN Raise("new_page") ELSE Return("new_page")
    /\ UNCHANGED <<runs, playwright, browser, outcome, fault, allClean, markers,
                   selected, initMarkers, startMarkers, app, files>>

\* A script with a setup step: the navigation also resets the page to zero
\* markers.
GotoWithReset ==
    /\ pc = "goto"
    /\ IF fault = "goto"
       THEN Raise("goto") /\ UNCHANGED <<selected, markers>>
       ELSE Return("goto") /\ selected' = FALSE /\ markers' = 0
    /\ UNCHANGED <<runs, playwright, browser, outcome, fault, allClean,
                   initMarkers, startMarkers, app, files>>

\* Line 9: page.goto(url).  A freshly loaded page has nothing selected; the
\* script does nothing to the markers the page shows.
Goto ==
    /\ pc = "goto"
    /\ IF fault = "goto"
       THEN Raise("goto") /\ selected' = selected
       ELSE Return("goto") /\ selected' = FALSE
    /\ UNCHANGED <<runs, playwright, browser, outcome, fault, allClean, markers,
                   initMarkers, startMarkers, app, files>>

\* Line 12: page.locator("button", has_text="Add Hotspot").click()
\* The locator times out when the control is not there.
ClickAdd ==
    /\ pc = "click_add"
    /\ IF fault = "click_add" \/ ~app.hasAdd
       THEN Raise("click_add") /\ markers' = markers
       ELSE Return("click_add")
            /\ markers' = IF app.addWorks THEN markers + 1 ELSE markers
    /\ UNCHANGED <<runs, playwright, browser, outcome, fault, allClean, selected,
                   initMarkers, startMarkers, app, files>>

\* Line 15: page.locator(".hotspot-element").click()
\* The locator times out when nothing matches.  When several elements match,
\* a strict locator raises and a lenient one clicks the first match: the
\* script does not say which, both are admitted.
ClickMarker ==
    /\ pc = "click_marker"
    /\ \/ /\ fault = "click_marker" \/ markers # 1
          /\ Raise("click_marker")
          /\ selected' = selected
       \/ /\ fault # "click_marker"
          /\ markers >= 1
          /\ Return("click_marker")
          /\ selected' = TRUE
    /\ UNCHANGED <<runs, playwright, browser, outcome, fault, allClean, markers,
                   initMarkers, startMarkers, app, files>>

\* Line 18: page.locator("button[aria-label='Delete hotspot']").click()
\* A working delete control removes the selected marker.
ClickDelete ==
    /\ pc = "click_delete"
    /\ IF fault = "click_delete"
       THEN Raise("click_delete") /\ UNCHANGED <<markers, selected>>
       ELSE /\ Return("click_delete")
            /\ IF app.deleteWorks /\ selected /\ markers >= 1
               THEN markers' = markers - 1 /\ selected' = FALSE
               ELSE UNCHANGED <<markers, selected>>
    /\ UNCHANGED <<runs, playwright, browser, outcome, fault, allClean,
                   initMarkers, startMarkers, app, files>>

\* A bug that closes the browser right after the assertion, inside the try
\* block.
ExpectCountThenClose ==
    /\ pc = "expect_count"
    /\ IF fault = "expect_count" \/ markers # ExpectedCount
       THEN Raise("expect_count") /\ browser' = browser
       ELSE /\ log' = log \o <<Entry("expect_count", TRUE), Entry("close", TRUE)>>
            /\ pc' = Successor("expect_count")
            /\ pending' = pending
            /\ browser' = "closed"
    /\ UNCHANGED <<runs, playwright, outcome, fault, allClean, markers,
                   selected, initMarkers, startMarkers, app, files>>

\* Line 21: expect(page.locator(".hotspot-element")).to_have_count(0)
ExpectCount ==
    /\ pc = "expect_count"
    /\ IF fault = "expect_count" \/ markers # ExpectedCount
       THEN Raise("expect_count")
       ELSE Return("expect_count")
    /\ UNCHANGED <<runs, playwright, browser, outcome, fault, allClean, markers,
                   selected, initMarkers, startMarkers, app, files>>

\* Line 23: page.screenshot(path="jules-scratch/verification/verification.png")
Screenshot ==
    /\ pc = "screenshot"
    /\ IF fault = "screenshot"
       THEN Raise("screenshot") /\ files' = files
       ELSE /\ Return("screenshot")
            /\ files' = [files EXCEPT ![ScreenshotArgs.path] =
                             Capture(runs, ScreenshotArgs.full_page)]
    /\ UNCHANGED <<runs, playwright, browser, outcome, fault, allClean, markers,
                   selected, initMarkers, startMarkers, app>>

\* A bug that turns the finally block into an except block: the exception is
\* dropped.
FinallySwallow ==
    /\ pc = "finally"
    /\ log' = Append(log, Entry("close", TRUE))
    /\ browser' = "closed"
    /\ pending' = "none"
    /\ pc' = "exit"
    /\ UNCHANGED <<runs, playwright, outcome, fault, allClean, markers, selected,
                   initMarkers, startMarkers, app, files>>

\* Lines 24-25: finally: browser.close().  The exception of the try block,
\* if there is one, goes on propagating after the block.
Finally ==
    /\ pc = "finally"
    /\ log' = Append(log, Entry("close", TRUE))
    /\ browser' = "closed"
    /\ pc' = "exit"
    /\ UNCHANGED <<runs, playwright, pending, outcome, fault, allClean, markers,
                   selected, initMarkers, startMarkers, app, files>>

\* Lines 27-28: run() has returned or raised; the with statement stops the
\* driver (which ends a browser that was left open) and does not catch the
\* exception: the script fails exactly when one is propagating.
Exit ==
    /\ pc = "exit"
    /\ playwright' = "stopped"
    /\ browser' = IF browser = "open" THEN "killed" ELSE browser
    /\ outcome' = IF pending = "none" THEN "success" ELSE "failure"
    /\ pc' = "done"
    /\ UNCHANGED <<runs, pending, log, fault, allClean, markers, selected,
                   initMarkers, startMarkers, app, files>>

Next ==
    \/ StartRun
    \/ Launch
    \/ NewContext
    \/ NewPage
    \/ Goto
    \/ ClickAdd
    \/ ClickMarker
    \/ ClickDelete
    \/ ExpectCount
    \/ Screenshot
    \/ Finally
    \/ Exit

Spec == Init /\ [][Next]_vars

----------------------------------------------------------------------------
(* What the log of a run says. *)

Called(c) == \E i \in 1..Len(log) : log[i].call = c

Ok(c) == \E i \in 1..Len(log) : log[i].call = c /\ log[i].ok

Count(c) == Cardinality({i \in 1..Len(log) : log[i].call = c})

IsStep(e) == e.call \in ScenarioSteps

\* The scenario steps the run has attempted, in order.
StepLog == SelectSeq(log, IsStep)

AllStepsOk == \A s \in ScenarioSteps : Ok(s)

SomeCallFailed == \E i \in 1..Len(log) : ~log[i].ok

\* A screenshot of the current run is on disk.
WrittenThisRun ==
    \E p \in Paths : files[p].kind = "capture" /\ files[p].run = runs

----------------------------------------------------------------------------
(* The claims. *)

\* C1: whenever run() has returned or raised after the browser was launched,
\* browser.close has been called, also when creating the context or opening
\* the page failed.
C1_BrowserClosedOnEveryExit ==
    (pc = "exit" /\ Ok("launch")) => (Called("close") /\ browser = "closed")

C3_LinearOrder ==
    /\ Len(StepLog) <= Len(Scenario)
    /\ \A i \in 1..Len(StepLog) :
         /\ i <= Len(Scenario) => StepLog[i].call = Scenario[i]
         /\ i < Len(StepLog) => StepLog[i].ok
    /\ pc \in ScenarioSteps =>
         /\ Len(StepLog) < Len(Scenario)
         /\ pc = Scenario[Len(StepLog) + 1]
         /\ \A i \in 1..Len(StepLog) : StepLog[i].ok
    /\ outcome = "success" => [i \in 1..Len(StepLog) |-> StepLog[i].call] = Scenario

C3_Witness ==
    /\ outcome = "success"
    /\ [i \in 1..Len(StepLog) |-> StepLog[i].call] = Scenario

\* C4: no call is issued twice in a run; after a failed call only the
\* browser's close follows; when the 'Add Hotspot' control is not there the
\* click on it fails, no later step is attempted and the run fails.
C4_NoRetryNoRecovery ==
    /\ \A c \in Calls \cup {"close"} : Count(c) <= 1
    /\ \A i \in 1..Len(log) :
         ~log[i].ok => \A j \in (i + 1)..Len(log) : log[j].call = "close"
    /\ ~app.hasAdd =>
         /\ ~Ok("click_add")
         /\ \A c \in {"click_marker", "click_delete", "expect_count", "screenshot"} :
              ~Called(c) /\ pc # c
         /\ pc = "done" => outcome = "failure"
         /\ (pc \in {"finally", "exit", "done"} /\ Ok("goto")) => pending = "click_add"

\* The control is missing, the click on it failed, the browser was closed
\* and the run failed.
C4_Witness ==
    /\ ~app.hasAdd
    /\ fault = "none"
    /\ pc = "done"
    /\ pending = "click_add"
    /\ Called("close")
    /\ outcome = "failure"

\* C5: a screenshot is attempted only after the assertion succeeded with
\* zero markers in the page; when a marker is left after the delete click,
\* the assertion fails, the run fails and writes no screenshot.
C5_ScreenshotOnlyAfterZero ==
    /\ (Called("screenshot") \/ pc = "screenshot") =>
         (Ok("expect_count") /\ markers = 0)
    /\ WrittenThisRun => (Ok("expect_count") /\ markers = 0)
    /\ (Ok("click_delete") /\ markers >= 1) =>
         /\ ~Ok("expect_count")
         /\ ~Called("screenshot")
         /\ ~WrittenThisRun
         /\ pc \in {"finally", "exit", "done"} => pending = "expect_count"
         /\ pc = "done" => outcome = "failure"

\* The delete control removed nothing, one marker is left, the assertion
\* failed the run.
C5_Witness ==
    /\ ~app.deleteWorks
    /\ fault = "none"
    /\ Ok("click_delete")
    /\ markers = 1
    /\ pc = "done"
    /\ pending = "expect_count"
    /\ outcome = "failure"

C7_FileHoldsRunsCapture ==
    /\ (pc = "done" /\ outcome = "success") =>
         (files[ScreenshotPath].kind = "capture" /\ files[ScreenshotPath].run = runs)
    /\ \A p \in Paths \ {ScreenshotPath} : files[p].kind # "capture"

\* Two successful runs in succession: the file holds the second run's
\* capture.
C7_Witness ==
    /\ runs = 2
    /\ pc = "done"
    /\ outcome = "success"
    /\ allClean /\ WellBehaved /\ initMarkers = 0
    /\ files[ScreenshotPath].run = 2

\* C8: with a well-behaved page that starts with zero markers and no
\* failure from outside the page, one marker exists after the 'Add Hotspot'
\* click, none after the delete click, and every run of a succession ends
\* in success with zero markers.
C8_AddThenDeleteTwice ==
    (WellBehaved /\ initMarkers = 0 /\ allClean) =>
        /\ pc \in {"idle", "done"} => markers = 0
        /\ runs >= 1 => startMarkers = 0
        /\ (Ok("click_add") /\ ~Called("click_delete")) => markers = 1
        /\ Ok("click_delete") => markers = 0
        /\ pc = "done" => (outcome = "success" /\ AllStepsOk)

C8_Witness ==
    /\ WellBehaved /\ initMarkers = 0 /\ allClean
    /\ runs = 2
    /\ pc = "done"
    /\ outcome = "success"
    /\ markers = 0

\* C9: with a well-behaved page, a run that starts with one marker or more
\* never ends in success and never writes a screenshot; if it gets as far
\* as the assertion, at least as many markers are there as at the start.
C9_DirtyStartNeverSucceeds ==
    (WellBehaved /\ runs >= 1 /\ startMarkers >= 1) =>
        /\ outcome # "success"
        /\ ~WrittenThisRun
        /\ ~Ok("expect_count")
        /\ (pc = "expect_count" \/ Called("expect_count")) => markers >= startMarkers

\* A run with no outside failure, started with a marker in the page, failed.
C9_Witness ==
    /\ WellBehaved
    /\ startMarkers >= 1
    /\ fault = "none"
    /\ Ok("click_add")
    /\ pc = "done"
    /\ outcome = "failure"

\* C10: a run launches the browser once and closes it at most once; every
\* scenario step is issued with the browser open and before the close.
C10_BrowserLifecycle ==
    /\ Count("launch") <= 1
    /\ (runs >= 1 /\ pc # "launch") => Count("launch") = 1
    /\ Count("close") <= 1
    /\ \A i \in 1..Len(log) :
         IsStep(log[i]) =>
             /\ log[i].browser = "open"
             /\ Ok("launch")
             /\ \A j \in 1..i : log[j].call # "close"
    /\ pc \in ScenarioSteps => browser = "open"

C10_Witness ==
    /\ pc = "done"
    /\ Count("launch") = 1
    /\ Count("close") = 1
    /\ Len(StepLog) = Len(Scenario)

=============================================================================
